---- MODULE Spec2Model ----
(***************************************************************************)
(* Call-turn orchestration engine of the VoiceBot receptionist service:    *)
(* the Twilio webhooks of app.py, the per-worker in-memory cache, the      *)
(* calls / minutes_usage / tickets tables and the TwiML the handlers emit. *)
(* Every webhook handler is one atomic action.                             *)
(***************************************************************************)
EXTENDS Integers, Sequences, FiniteSets, TLC

(* ------------------------------ bounds -------------------------------- *)

\* number of webhook deliveries explored in one behaviour
MaxDeliveries == 4

(* ------------------------- program constants -------------------------- *)

\* "Max 15 turns then end gracefully"
MaxTurns == 15

\* resp.dial(transfer_number, timeout=30)
DialTimeout == 30

\* the turn response sees the last 10 entries of the transcript
ContextTurns == 10

\* the caller history holds the last 2 completed calls
HistoryLimit == 2

\* resp.record(max_length=120, ...)
VoicemailMaxLength == 120

(* --------------------------- input domains ---------------------------- *)

\* gunicorn worker processes; each has its own _mem_store
Workers == {"w1", "w2"}

\* CallSid values the telephony provider delivers
Sids == {"CA1"}

\* rows of the businesses table
Biz == {"b1", "b2"}

\* result of a query with one=True that matches no row
NoBiz == "none"

\* values of the Called parameter: two assigned numbers and one nobody owns
Numbers == {"+441", "+442", "+449"}

\* values of CallDuration, in seconds
Durations == {0, 125, 9600}

\* the CallDuration of an ordinary short call
LifecycleDurations == {125}

\* values of CallStatus
CallStatuses == {"completed", "no-answer", "ringing"}

\* values of the turn query parameter
Turns == {0, MaxTurns - 1, MaxTurns, MaxTurns + 1}

\* values of SpeechResult
Speech == {"", "Hello", "A MANAGER please"}

\* what _call_gemini returns for a turn: None or a reply
AiRaw == {"None", "We open at nine."}

\* what the analysis of a completed call yields: a dict that asks for a
\* ticket, a dict that does not, None from the provider (so _empty_analysis),
\* or JSON that is not a dict (so .get raises inside the try block)
AnalysisOut == {"ticket", "plain", "none", "notdict"}

\* the onboarding interviews
Obs == {"ob1"}

\* the SpeechResult values of an onboarding answer
OnbSpeech == {"Nine to five", "Closed on Sundays"}

\* what the question generation yields: a JSON list, None from the provider,
\* or JSON that is not a list (so questions[0] raises)
GenOut == {"list", "None", "notlist"}

\* what the config synthesis yields: a dict, None from the provider, or JSON
\* that is not a dict (so config.get raises)
SynOut == {"dict", "None", "notdict"}

(* ------------------------------ helpers ------------------------------- *)

None == <<>>

Some(v) == <<v>>

\* the characters of each SpeechResult value
Chars(s) ==
    CASE s = "Hello" -> <<"H", "e", "l", "l", "o">>
      [] s = "A MANAGER please" ->
             <<"A", " ", "M", "A", "N", "A", "G", "E", "R", " ",
               "p", "l", "e", "a", "s", "e">>
      [] OTHER -> <<>>

\* str.lower() on one character
LowerChar(c) ==
    CASE c = "A" -> "a" [] c = "E" -> "e" [] c = "G" -> "g" [] c = "H" -> "h"
      [] c = "M" -> "m" [] c = "N" -> "n" [] c = "R" -> "r"
      [] OTHER -> c

Lower(cs) == [i \in 1..Len(cs) |-> LowerChar(cs[i])]

\* kw in text
IsSubstring(kw, text) ==
    \E i \in 0..(Len(text) - Len(kw)) :
        \A j \in 1..Len(kw) : text[i + j] = kw[j]

\* transfer_keywords
TransferKeywords ==
    { <<"t", "r", "a", "n", "s", "f", "e", "r">>,
      <<"s", "p", "e", "a", "k", " ", "t", "o", " ", "s", "o", "m", "e", "o", "n", "e">>,
      <<"h", "u", "m", "a", "n">>,
      <<"r", "e", "a", "l", " ", "p", "e", "r", "s", "o", "n">>,
      <<"m", "a", "n", "a", "g", "e", "r">> }

\* needs_transfer = any(kw in speech_result.lower() for kw in transfer_keywords)
NeedsTransfer(speech) ==
    \E kw \in TransferKeywords : IsSubstring(kw, Lower(Chars(speech)))

(* ------------------- business configuration (read only) --------------- *)

\* a lookup that finds a business for every number
get_business_by_number_any(called) == IF called = "+442" THEN "b2" ELSE "b1"

\* businesses JOIN phone_numbers WHERE number = called AND status = 'assigned'
get_business_by_number(called) ==
    CASE called = "+441" -> "b1"
      [] called = "+442" -> "b2"
      [] OTHER -> NoBiz

\* businesses.tier; b2 carries a tier name written by the sh1.py migration
Tier(b) == IF b = "b1" THEN "starter" ELSE "standard"

\* TIER_LIMITS.get(tier, TIER_LIMITS['starter'])['minutes']
TierMinutes(tier) ==
    CASE tier = "starter" -> 200
      [] tier = "growth" -> 600
      [] tier = "enterprise" -> 2000
      [] OTHER -> 200

\* businesses.transfer_number ("" when not configured)
TransferNumber(b) == IF b = "b1" THEN "+447" ELSE ""

\* users.phone of the owner of the business ("" when the owner gave none)
UserPhone(b) == IF b = "b1" THEN "+448" ELSE ""

\* phone_numbers.agent_personality of a number ("" when the number has none)
NumberPersonality(number) == IF number = "+441" THEN "formal" ELSE ""

\* businesses.agent_personality
AgentPersonality(b) == IF b = "b1" THEN "friendly" ELSE "warm"

\* the summaries of the completed calls the caller made to the business
\* before the calls of this model, oldest first: the caller is known to b1
EarlierCalls(b) ==
    IF b = "b1" THEN <<"Asked for a quote.", "Booked a visit.">> ELSE <<>>

\* calls.caller_name of the caller's most recent earlier call to the business
\* ("" when no earlier call recorded a name)
EarlierCallerName(b) == IF b = "b1" THEN "Sam" ELSE ""

\* businesses.restricted_info ("" when the business has none)
RestrictedInfo(b) == IF b = "b1" THEN "The alarm code is 4711." ELSE ""

\* a or b, on strings
OrStr(a, b) == IF a # "" THEN a ELSE b

(* ------------------------------- TwiML -------------------------------- *)

\* one verb of a VoiceResponse; text is the sequence of concatenated strings
Verb(v, text, action, n) == [verb |-> v, text |-> text, action |-> action, n |-> n]

Say(text) == Verb("Say", text, "", -1)

Hangup == Verb("Hangup", <<>>, "", -1)

\* the reply of a handler that raised: no TwiML, HTTP 500
ServerError == << Verb("Error500", <<>>, "", -1) >>

\* the reply of a handler that returns '', 204
NoContent == << Verb("NoContent204", <<>>, "", -1) >>

TwimlNotConfigured ==
    << Say(<<"Sorry, this number is not configured. Goodbye.">>), Hangup >>

twiml_greet_and_gather(greeting) ==
    << Verb("Gather", <<greeting>>, "/webhook/gather-response", 0),
       Say(<<"I didn't catch that. Let me transfer you to someone who can help.">>),
       Verb("Redirect", <<>>, "/webhook/transfer", -1) >>

twiml_respond_and_gather(ai_response, turn) ==
    << Verb("Gather", <<ai_response>>, "/webhook/gather-response", turn + 1),
       Say(<<"Thank you for calling. Have a great day!">>),
       Hangup >>

twiml_transfer(transfer_number) ==
    << Say(<<"Let me transfer you now.">>),
       Verb("Dial", <<transfer_number>>, "", DialTimeout),
       Say(<<"Sorry, nobody is available right now. Please try again later.">>),
       Hangup >>

\* an after-hours response that listens for speech instead of recording
twiml_after_hours_with_gather(message) ==
    << Say(<<message>>),
       Verb("Gather", <<"Please leave a message after the beep.">>,
            "/webhook/gather-response", 0),
       Say(<<"Thank you. Goodbye.">>),
       Hangup >>

twiml_after_hours(message) ==
    << Say(<<message>>),
       Say(<<"Please leave a message after the beep.">>),
       Verb("Record", <<>>, "/webhook/voicemail-complete", VoicemailMaxLength),
       Say(<<"Thank you. Goodbye.">>),
       Hangup >>

TwimlClosing(ai_response) ==
    << Say(<<ai_response, " Thank you for calling. Have a great day!">>), Hangup >>

TwimlBizError == << Say(<<"Sorry, there was an error. Goodbye.">>), Hangup >>

TwimlVoicemailDone == << Say(<<"Thank you. Goodbye.">>), Hangup >>

TwimlSetupError ==
    << Say(<<"Sorry, there was a setup error. We'll call you back.">>), Hangup >>

\* the response of /webhook/onboarding-start: welcome and question 0
TwimlOnboardingStart(question_text) ==
    << Say(<<"Hello! I'm going to ask you a few questions to set up your AI receptionist. Let's get started!">>),
       Verb("Pause", <<>>, "", 1),
       Verb("Gather", <<question_text>>, "/webhook/onboarding-answer", 0),
       Say(<<"I didn't hear a response. Let me move to the next question.">>),
       Verb("Redirect", <<>>, "/webhook/onboarding-next", 1) >>

\* a question whose silence leads back to the same question
twiml_onboarding_question_retrying(question_text, question_idx) ==
    << Verb("Gather", <<question_text>>, "/webhook/onboarding-answer", question_idx),
       Say(<<"I didn't hear a response. Let me move to the next question.">>),
       Verb("Redirect", <<>>, "/webhook/onboarding-next", question_idx) >>

twiml_onboarding_question(question_text, question_idx) ==
    << Verb("Gather", <<question_text>>, "/webhook/onboarding-answer", question_idx),
       Say(<<"I didn't hear a response. Let me move to the next question.">>),
       Verb("Redirect", <<>>, "/webhook/onboarding-next", question_idx + 1) >>

twiml_onboarding_complete ==
    << Say(<<"That's all the questions I have. Thank you! Your AI receptionist is being configured now. We'll send you a text when it's ready. Goodbye!">>),
       Hangup >>

\* client.calls.create(url=.../webhook/onboarding-start): what the provider
\* runs first on the interview call
OutboundCall == << Verb("Redirect", <<>>, "/webhook/onboarding-start", 0) >>

(* ------------------------------- state -------------------------------- *)

VARIABLES
    calls,      \* the calls table: a sequence of rows
    tickets,    \* the tickets table: a sequence of rows
    usage,      \* the minutes_usage rows of the current month: usage[b] is
                \* None or Some(row)
    mem,        \* mem[w] is the _mem_store of worker w
    sms,        \* the alert messages handed to twilio_service.send_sms
    req,        \* the last webhook request: its route, CallSid, turn, speech
                \* and call status
    resp,       \* the response to the last webhook request
    ai,         \* the use the last handler made of the AI provider
    opened,     \* the CallSids of the calls the telephony provider has opened
    delivered,  \* number of webhook deliveries so far
    onb,        \* the onboarding_calls table: onb[o] is None or Some(row)
    account,    \* account[b]: the status of business b and of its owner, and
                \* the agent config written to the business
    line,       \* the TwiML the provider is running on the interview call
    idle        \* TRUE when the idle period of the session entries (their ex
                \* argument) has passed since the last request

vars == <<calls, tickets, usage, mem, sms, req, resp, ai, opened, delivered,
          onb, account, line, idle>>

\* the state of the onboarding interview
onbvars == <<onb, account, line>>

(* --------------------------- the calls table -------------------------- *)

\* indices of the rows WHERE twilio_call_sid = sid
RowsOf(tbl, sid) == {i \in DOMAIN tbl : tbl[i].twilio_call_sid = sid}

\* query_db(..., one=True): the first matching row, or None
query_call(tbl, sid) ==
    IF RowsOf(tbl, sid) = {}
    THEN None
    ELSE Some(tbl[CHOOSE i \in RowsOf(tbl, sid) : \A j \in RowsOf(tbl, sid) : i <= j])

\* an UPDATE that writes nothing
update_calls_nothing(tbl, sid, set) == tbl

\* UPDATE calls SET ... WHERE twilio_call_sid = sid
\* set maps the assigned columns to their new values
update_calls(tbl, sid, set) ==
    [i \in DOMAIN tbl |->
        IF tbl[i].twilio_call_sid = sid
        THEN [col \in DOMAIN tbl[i] |-> IF col \in DOMAIN set THEN set[col] ELSE tbl[i][col]]
        ELSE tbl[i]]

\* the row INSERT INTO calls (...) VALUES (..., 'inbound', 'in_progress') makes
NewCall(biz_id, call_sid, called_number) ==
    [twilio_call_sid |-> call_sid, business_id |-> biz_id,
     called_number |-> called_number, status |-> "in_progress",
     duration_seconds |-> 0, conversation_log |-> <<>>, recording_url |-> "",
     summary |-> ""]

\* the data model keeps one Call row per external call reference: the table
\* rejects a second row with the same twilio_call_sid
UniqueViolation(tbl, row) == RowsOf(tbl, row.twilio_call_sid) # {}

\* an insert into a calls table that accepts a second row for a CallSid
insert_call_unchecked(tbl, row) == Append(tbl, row)

\* insert_db: a rejected INSERT is caught, rolled back and returns None
insert_call(tbl, row) ==
    IF UniqueViolation(tbl, row) THEN tbl ELSE Append(tbl, row)

(* ------------------------ the in-memory cache -------------------------- *)

EmptyStore ==
    [conv |-> [s \in Sids |-> None], hist |-> [s \in Sids |-> None],
     pers |-> [s \in Sids |-> None], active |-> [b \in Biz |-> None],
     onq |-> [o \in Obs |-> None], ona |-> [o \in Obs |-> None]]

\* _mem_store.get(key, 0)
GetOr0(opt) == IF opt = None THEN 0 ELSE opt[1]

\* cache_incr(f"active_calls:{biz_id}")
cache_incr(store, b) ==
    [store EXCEPT !.active[b] = Some(GetOr0(@) + 1)]

\* a decrement without the max(0, ...)
cache_decr_unclamped(store, b) ==
    [store EXCEPT !.active[b] = Some(GetOr0(@) - 1)]

\* cache_decr(f"active_calls:{biz_id}")
cache_decr(store, b) ==
    [store EXCEPT !.active[b] = Some(IF GetOr0(@) - 1 > 0 THEN GetOr0(@) - 1 ELSE 0)]

\* cache_set(f"conv:{call_sid}", value)
cache_set_conv(store, sid, value) == [store EXCEPT !.conv[sid] = Some(value)]

\* cache_get(f"conv:{call_sid}") or []
cache_get_conv(store, sid) ==
    IF store.conv[sid] = None THEN <<>> ELSE store.conv[sid][1]

\* cache_set(f"caller_hist:{call_sid}", value)
cache_set_hist(store, sid, value) == [store EXCEPT !.hist[sid] = Some(value)]

\* cache_get(f"caller_hist:{call_sid}"): a missing entry reads as None, which
\* the prompt builder treats like the empty list ("if caller_history:")
cache_get_hist(store, sid) ==
    IF store.hist[sid] = None THEN <<>> ELSE store.hist[sid][1]

\* cache_set(f"num_personality:{call_sid}", value)
cache_set_pers(store, sid, value) == [store EXCEPT !.pers[sid] = Some(value)]

\* cache_get(f"num_personality:{call_sid}") or ''
cache_get_pers(store, sid) ==
    IF store.pers[sid] = None THEN "" ELSE store.pers[sid][1]

\* cache_set(f"onboarding_q:{ob_id}", questions)
cache_set_onq(store, ob_id, value) == [store EXCEPT !.onq[ob_id] = Some(value)]

\* cache_get(f"onboarding_q:{ob_id}") or []
cache_get_onq(store, ob_id) ==
    IF store.onq[ob_id] = None THEN <<>> ELSE store.onq[ob_id][1]

\* cache_set(f"onboarding_a:{ob_id}", answers)
cache_set_ona(store, ob_id, value) == [store EXCEPT !.ona[ob_id] = Some(value)]

\* cache_get(f"onboarding_a:{ob_id}") or {}
cache_get_ona(store, ob_id) ==
    IF store.ona[ob_id] = None THEN {} ELSE store.ona[ob_id][1]

(* -------------------------- caller history ---------------------------- *)

\* a history that does not look at the status of the calls
get_caller_history_any_status(tbl, b) ==
    LET of_biz(row) == row.business_id = b
        here == SelectSeq(tbl, of_biz)
        all == EarlierCalls(b) \o [i \in 1..Len(here) |-> here[i].summary]
        newest_first == [i \in 1..Len(all) |-> all[Len(all) + 1 - i]]
    IN  SubSeq(newest_first, 1,
               IF Len(all) < HistoryLimit THEN Len(all) ELSE HistoryLimit)

\* get_caller_history(business_id, caller_number, limit=2): the summaries of
\* the caller's completed calls to the business, newest first, at most two;
\* every call of the model comes from the same caller
get_caller_history(tbl, b) ==
    LET done(row) == row.business_id = b /\ row.status = "completed"
        here == SelectSeq(tbl, done)
        all == EarlierCalls(b) \o [i \in 1..Len(here) |-> here[i].summary]
        newest_first == [i \in 1..Len(all) |-> all[Len(all) + 1 - i]]
    IN  SubSeq(newest_first, 1,
               IF Len(all) < HistoryLimit THEN Len(all) ELSE HistoryLimit)

(* ----------------------------- usage ---------------------------------- *)

\* round(seconds / 60, 2), in hundredths of a minute
RoundMinutes(seconds) == (10 * seconds + 3) \div 6

\* a minutes_usage row as INSERT (business_id, month, minutes_limit) leaves
\* it: the other columns take the defaults of the table
NewUsage(limit) ==
    [minutes_used |-> 0, minutes_limit |-> limit,
     alert_80_sent |-> FALSE, alert_90_sent |-> FALSE, alert_100_sent |-> FALSE]

get_or_create_usage(u, b) ==
    IF u[b] # None
    THEN u
    ELSE [u EXCEPT ![b] = Some(NewUsage(TierMinutes(Tier(b))))]

\* a threshold test that needs the usage to be above the threshold
PctAbove(row, t) ==
    /\ row.minutes_limit > 0
    /\ row.minutes_used > t * row.minutes_limit

\* pct >= t, with pct = minutes_used / minutes_limit * 100 (0 if no limit)
PctAtLeast(row, t) ==
    /\ row.minutes_limit > 0
    /\ row.minutes_used >= t * row.minutes_limit

Alert(b, t) == [to |-> UserPhone(b), biz |-> b, pct |-> t]

\* if user and user['phone']: twilio_service.send_sms(...)
send_alert(s, b, t) ==
    IF UserPhone(b) # "" THEN Append(s, Alert(b, t)) ELSE s

\* a threshold test that ignores the flag of the threshold
threshold_due_ignoring_flag(row, t, sent) == PctAtLeast(row, t)

\* pct >= t and not usage['alert_<t>_sent']
threshold_due(row, t, sent) == PctAtLeast(row, t) /\ ~sent

\* an accrual that tests the three thresholds one after the other ("if"
\* where the code has "elif")
add_call_minutes_every_threshold(u, s, b, seconds) ==
    LET minutes == RoundMinutes(seconds)
        u1 == IF u[b] # None
              THEN [u EXCEPT ![b] = Some([@[1] EXCEPT !.minutes_used = @ + minutes])]
              ELSE u
        u2 == get_or_create_usage(u1, b)
        row == u2[b][1]
        due100 == threshold_due(row, 100, row.alert_100_sent)
        due90 == threshold_due(row, 90, row.alert_90_sent)
        due80 == threshold_due(row, 80, row.alert_80_sent)
        s1 == IF due100 THEN send_alert(s, b, 100) ELSE s
        s2 == IF due90 THEN send_alert(s1, b, 90) ELSE s1
    IN  [usage |-> [u2 EXCEPT ![b] =
                       Some([row EXCEPT !.alert_100_sent = @ \/ due100,
                                        !.alert_90_sent = @ \/ due90,
                                        !.alert_80_sent = @ \/ due80])],
         sms |-> IF due80 THEN send_alert(s2, b, 80) ELSE s2]

\* add_call_minutes(business_id, seconds): the new minutes_usage table and
\* the new list of messages sent
add_call_minutes(u, s, b, seconds) ==
    LET minutes == RoundMinutes(seconds)
        u1 == IF u[b] # None
              THEN [u EXCEPT ![b] = Some([@[1] EXCEPT !.minutes_used = @ + minutes])]
              ELSE u
        u2 == get_or_create_usage(u1, b)
        row == u2[b][1]
    IN  IF threshold_due(row, 100, row.alert_100_sent)
        THEN [usage |-> [u2 EXCEPT ![b] = Some([row EXCEPT !.alert_100_sent = TRUE])],
              sms |-> send_alert(s, b, 100)]
        ELSE IF threshold_due(row, 90, row.alert_90_sent)
        THEN [usage |-> [u2 EXCEPT ![b] = Some([row EXCEPT !.alert_90_sent = TRUE])],
              sms |-> send_alert(s, b, 90)]
        ELSE IF threshold_due(row, 80, row.alert_80_sent)
        THEN [usage |-> [u2 EXCEPT ![b] = Some([row EXCEPT !.alert_80_sent = TRUE])],
              sms |-> send_alert(s, b, 80)]
        ELSE [usage |-> u2, sms |-> s]

(* ------------------------------- Init --------------------------------- *)

\* users and businesses as registration inserts them: both 'pending'
NewAccount == [status |-> "pending", user_status |-> "pending", config |-> ""]

\* a webhook request: the route it was sent to, the CallSid it names, for a
\* speech callback its turn parameter and its SpeechResult, for a status
\* callback its CallStatus and CallDuration, and for an incoming call its
\* Called number and
\* what is_within_business_hours said when the handler asked; recording is
\* what get_recording_url said when a status callback asked
Request(op, call_sid, turn, speech_result, call_status, duration, called, hours) ==
    [op |-> op, call_sid |-> call_sid, turn |-> turn, speech |-> speech_result,
     status |-> call_status, duration |-> duration, called |-> called,
     hours |-> hours, recording |-> ""]

\* the request context of a turn response: the business it is for, the
\* transcript so far, the caller history and the personality
Context(biz_id, conversation_log, caller_history, agent_personality) ==
    [business_id |-> biz_id, conversation_log |-> conversation_log,
     caller_history |-> caller_history, agent_personality |-> agent_personality]

\* the operation has no request context
NoContext == Context("", <<>>, <<>>, "")

\* what a handler asked of the AI provider: the operation, its outcome and,
\* for a turn response, the request context
AiUse(op, out) == [op |-> op, out |-> out, ctx |-> NoContext]

\* the handler did not call the AI provider
NoAi == AiUse("", "")

\* no request was delivered yet
NoRequest == Request("", "", 0, "", "", 0, "", "")

Init ==
    /\ calls = <<>>
    /\ tickets = <<>>
    /\ usage = [b \in Biz |-> None]
    /\ mem = [w \in Workers |-> EmptyStore]
    /\ sms = <<>>
    /\ req = NoRequest
    /\ resp = <<>>
    /\ ai = NoAi
    /\ opened = {}
    /\ delivered = 0
    /\ onb = [o \in Obs |-> None]
    /\ account = [b \in Biz |-> NewAccount]
    /\ line = <<>>
    /\ idle = FALSE

(* ------------------------- webhook handlers --------------------------- *)

\* biz.get('number_greeting') or biz.get('greeting') or "Hello, thank you ..."
Greeting(b) == "Hello, thank you for calling. How can I help you?"

\* biz.get('after_hours_message') or "Thank you for calling ... closed."
AfterHoursMessage(b) == "Thank you for calling. We are currently closed."

\* /webhook/incoming-call; open is the result of is_within_business_hours
webhook_incoming_call(w, call_sid, called_number, open) ==
    /\ delivered < MaxDeliveries
    /\ delivered' = delivered + 1
    /\ idle' = FALSE
    /\ UNCHANGED onbvars
    /\ req' = Request("incoming-call", call_sid, 0, "", "", 0, called_number,
                       IF get_business_by_number(called_number) = NoBiz THEN ""
                       ELSE IF open THEN "open" ELSE "closed")
    /\ opened' = opened \cup {call_sid}
    /\ ai' = NoAi
    /\ LET biz == get_business_by_number(called_number) IN
       IF biz = NoBiz
       THEN /\ resp' = (TwimlNotConfigured)
            /\ UNCHANGED <<calls, tickets, usage, mem, sms>>
       ELSE /\ calls' = insert_call(calls, NewCall(biz, call_sid, called_number))
            /\ mem' = [mem EXCEPT ![w] =
                          IF open
                          THEN cache_set_pers(
                                   cache_set_conv(
                                       cache_set_hist(cache_incr(@, biz), call_sid,
                                           get_caller_history(calls', biz)),
                                       call_sid, <<>>),
                                   call_sid,
                                   OrStr(NumberPersonality(called_number),
                                         AgentPersonality(biz)))
                          ELSE cache_incr(@, biz)]
            /\ resp' = (IF open
                               THEN twiml_greet_and_gather(Greeting(biz))
                               ELSE twiml_after_hours(AfterHoursMessage(biz)))
            /\ UNCHANGED <<tickets, usage, sms>>

Entry(role, text) == [role |-> role, text |-> text]

FallbackReply == "I'm sorry, could you repeat that? I want to make sure I help you properly."

\* a turn response that hands on whatever the provider call returned
generate_agent_response_unguarded(raw) == raw

\* generate_agent_response: return response or <fallback>
generate_agent_response(raw) ==
    IF raw = "None" \/ raw = "" THEN FallbackReply ELSE raw

\* conv_log as the handler resolves it: the worker's cache entry, or the
\* durable conversation_log when the cache entry is missing or empty
resolve_conv_log(store, tbl, call_sid) ==
    LET cached == cache_get_conv(store, call_sid)
        row == query_call(tbl, call_sid)
    IN  IF cached # <<>> THEN cached
        ELSE IF row # None /\ row[1].conversation_log # <<>>
        THEN row[1].conversation_log
        ELSE <<>>

\* num_personality as the handler resolves it: the worker's cache entry, or
\* the personality of the number the call came in on, or that of the business
resolve_personality(store, tbl, call_sid, biz_id) ==
    LET cached == cache_get_pers(store, call_sid)
        row == query_call(tbl, call_sid)
        looked_up == IF cached # "" THEN cached
                     ELSE IF row # None /\ row[1].called_number # ""
                     THEN NumberPersonality(row[1].called_number)
                     ELSE ""
    IN  OrStr(looked_up, AgentPersonality(biz_id))

\* the caller history block of the prompt: its framing, the known name and
\* the summaries it lists. known_name is the first h.get('caller_name') that
\* is set; the entries get_caller_history builds hold date, summary,
\* category, sentiment and duration, so the lookup finds none
history_text(caller_history) ==
    LET known_name == "" IN
    IF caller_history = <<>>
    THEN [framing |-> "new caller", name |-> "", summaries |-> <<>>]
    ELSE [framing |-> "RETURNING CALLER", name |-> known_name,
          summaries |-> caller_history]

\* conversation_log[-10:]
LastTurns(log) ==
    IF Len(log) <= ContextTurns THEN log
    ELSE SubSeq(log, Len(log) - ContextTurns + 1, Len(log))

\* the request context generate_agent_response builds its prompt from, for a
\* speech event handled with the cache entries of store
ai_context(store, tbl, call_sid, biz_id, speech_result) ==
    Context(biz_id,
            LastTurns(Append(resolve_conv_log(store, tbl, call_sid),
                             Entry("Caller", speech_result))),
            cache_get_hist(store, call_sid),
            resolve_personality(store, tbl, call_sid, biz_id))

\* a turn bound that lets the turn with index 15 go on
turn_limit_exceeded(turn) == turn > MaxTurns

\* the turn bound of the handler: "if turn >= 15"
turn_limit_reached(turn) == turn >= MaxTurns

\* /webhook/gather-response
webhook_gather_response(w, call_sid, biz_id, turn, speech_result, raw) ==
    /\ delivered < MaxDeliveries
    /\ delivered' = delivered + 1
    /\ idle' = FALSE
    /\ UNCHANGED onbvars
    /\ req' = Request("gather-response", call_sid, turn, speech_result, "", 0, "", "")
    /\ UNCHANGED opened
    /\ UNCHANGED <<tickets, usage, sms>>
    /\ IF speech_result = ""
       THEN \* Gather is not imported in app.py: the re-prompt branch raises NameError
            /\ resp' = (ServerError)
            /\ ai' = NoAi
            /\ UNCHANGED <<calls, mem>>
       ELSE IF biz_id \notin Biz
       THEN /\ resp' = (TwimlBizError)
            /\ ai' = NoAi
            /\ UNCHANGED <<calls, mem>>
       ELSE LET conv_log == Append(resolve_conv_log(mem[w], calls, call_sid),
                                   Entry("Caller", speech_result))
                ai_response == generate_agent_response(raw)
            IN  /\ ai' = [AiUse("turn-response", raw) EXCEPT
                              !.ctx = ai_context(mem[w], calls, call_sid, biz_id,
                                                 speech_result)]
                /\ IF NeedsTransfer(speech_result) /\ TransferNumber(biz_id) # ""
                   THEN /\ mem' = [mem EXCEPT ![w] = cache_set_conv(@, call_sid,
                                      Append(conv_log, Entry("Agent", "Transferring to human.")))]
                        /\ resp' = (twiml_transfer(TransferNumber(biz_id)))
                        /\ UNCHANGED calls
                   ELSE LET log == Append(conv_log, Entry("Agent", ai_response)) IN
                        /\ mem' = [mem EXCEPT ![w] = cache_set_conv(@, call_sid, log)]
                        /\ calls' = update_calls(calls, call_sid,
                                        [conversation_log |-> log])
                        /\ resp' = (IF turn_limit_reached(turn)
                                    THEN TwimlClosing(ai_response)
                                    ELSE twiml_respond_and_gather(ai_response, turn))

\* the statuses the handler treats as a missed call
MissedStatuses == {"busy", "no-answer", "canceled", "failed"}

\* the summary column an analysis outcome leaves in the row
SummaryOf(an) == IF an = "none" THEN "Unable to analyze." ELSE "summary"

\* a first write that sets the status and leaves the duration for later
mark_completed_without_duration(tbl, call_sid, duration) ==
    update_calls(tbl, call_sid, [status |-> "completed"])

\* UPDATE calls SET status='completed', duration_seconds=%s: the first write
\* of the completed branch, before the try block
mark_completed(tbl, call_sid, duration) ==
    update_calls(tbl, call_sid, [status |-> "completed", duration_seconds |-> duration])

\* a choice that prefers the transcript to the recording
analysis_source_transcript_first(rec, conv_log) ==
    IF conv_log # <<>> THEN "analyze-transcript"
    ELSE IF rec THEN "analyze-recording"
    ELSE ""

\* the analysis operation of the completed branch: the recording when
\* get_recording_url found one, else the transcript when conv_log is not
\* empty, else none ("")
analysis_source(rec, conv_log) ==
    IF rec THEN "analyze-recording"
    ELSE IF conv_log # <<>> THEN "analyze-transcript"
    ELSE ""

\* /webhook/call-status; rec tells whether get_recording_url finds a
\* recording, an is the outcome of the analysis operation
webhook_call_status(w, call_sid, status, duration, rec, an) ==
    /\ delivered < MaxDeliveries
    /\ delivered' = delivered + 1
    /\ idle' = FALSE
    /\ UNCHANGED onbvars
    /\ req' = [Request("call-status", call_sid, 0, "", status, duration, "", "")
                  EXCEPT !.recording = IF status # "completed" THEN ""
                                       ELSE IF rec THEN "found" ELSE "none"]
    /\ resp' = NoContent
    /\ UNCHANGED opened
    /\ LET call == query_call(calls, call_sid) IN
       IF status = "completed"
       THEN IF call = None
            THEN /\ ai' = NoAi
                 /\ UNCHANGED <<calls, tickets, usage, mem, sms>>
            ELSE LET biz_id == call[1].business_id
                     done == mark_completed(calls, call_sid, duration)
                     cached == cache_get_conv(mem[w], call_sid)
                     conv_log == IF cached = <<>> /\ call[1].conversation_log # <<>>
                                 THEN call[1].conversation_log
                                 ELSE cached
                     recording_url == IF rec THEN "recording.mp3" ELSE ""
                     source == analysis_source(rec, conv_log)
                     analysed == source # ""
                     acc == add_call_minutes(usage, sms, biz_id, duration)
                 IN  /\ IF analysed /\ an = "notdict"
                        THEN \* analysis.get raises; the except clause logs it
                             /\ calls' = done
                             /\ UNCHANGED tickets
                        ELSE IF analysed
                        THEN /\ calls' = update_calls(done, call_sid,
                                   [recording_url |-> recording_url,
                                    summary |-> SummaryOf(an),
                                    conversation_log |-> conv_log])
                             /\ tickets' = IF an = "ticket"
                                           THEN Append(tickets,
                                                   [business_id |-> biz_id,
                                                    call_sid |-> call_sid])
                                           ELSE tickets
                        ELSE /\ calls' = update_calls(done, call_sid,
                                   [recording_url |-> "", conversation_log |-> conv_log])
                             /\ UNCHANGED tickets
                     /\ ai' = IF ~analysed THEN NoAi ELSE AiUse(source, an)
                     /\ usage' = acc.usage
                     /\ sms' = acc.sms
                     /\ mem' = [mem EXCEPT ![w] = cache_decr(@, biz_id)]
       ELSE IF status \in MissedStatuses
       THEN /\ calls' = update_calls(calls, call_sid,
                            [status |-> "missed"])
            /\ mem' = IF call = None
                      THEN mem
                      ELSE [mem EXCEPT ![w] = cache_decr(@, call[1].business_id)]
            /\ ai' = NoAi
            /\ UNCHANGED <<tickets, usage, sms>>
       ELSE /\ ai' = NoAi
            /\ UNCHANGED <<calls, tickets, usage, mem, sms>>

\* /webhook/voicemail-complete
webhook_voicemail_complete(call_sid) ==
    /\ delivered < MaxDeliveries
    /\ delivered' = delivered + 1
    /\ idle' = FALSE
    /\ UNCHANGED onbvars
    /\ calls' = update_calls(calls, call_sid,
                    [status |-> "voicemail", recording_url |-> "voicemail.mp3"])
    /\ req' = Request("voicemail-complete", call_sid, 0, "", "", 0, "", "")
    /\ resp' = TwimlVoicemailDone
    /\ ai' = NoAi
    /\ UNCHANGED opened
    /\ UNCHANGED <<tickets, usage, mem, sms>>

\* /dashboard, /dashboard/billing and /api/usage call get_or_create_usage
view_usage(b) ==
    /\ usage' = get_or_create_usage(usage, b)
    /\ UNCHANGED <<calls, tickets, mem, sms, req, resp, ai, opened, delivered>>
    /\ UNCHANGED onbvars
    /\ idle' = FALSE

(* ----------------------- the onboarding interview --------------------- *)

Question(field_name, question) == [field_name |-> field_name, question |-> question]

\* a question list as the AI provider writes it
GeneratedQuestions ==
    << Question("greeting", "How would you like callers to be greeted?"),
       Question("business_hours", "When are you open?") >>

\* the fixed list get_onboarding_questions falls back to
FallbackQuestions ==
    << Question("services_offered", "What services does the business offer?"),
       Question("business_hours", "What are your business hours?"),
       Question("greeting", "How should the AI greet callers?"),
       Question("common_questions", "What are the most common reasons customers call?"),
       Question("transfer_number", "What number should calls transfer to when the AI can't help?"),
       Question("after_hours_message", "What happens after hours?"),
       Question("restricted_info", "Any information the AI must never share?"),
       Question("special_instructions", "Any other special instructions?") >>

\* a JSON object the provider returned where a list was asked for, kept as
\* a one-element marker: it is not empty, and indexing it with a question
\* index raises
NotAList == << Question("not a list", "not a list") >>

\* get_onboarding_questions: "if result: return result", else the fixed list
get_onboarding_questions(gen) ==
    CASE gen = "None" -> FallbackQuestions
      [] gen = "notlist" -> NotAList
      [] OTHER -> GeneratedQuestions

\* build_agent_config: the provider's config, or the minimal config
build_agent_config(syn) ==
    IF syn = "None" THEN "fallback config" ELSE "generated config"

\* the row INSERT INTO onboarding_calls (...) VALUES (..., 'pending') makes
NewOnboarding(biz_id, questions) ==
    [business_id |-> biz_id, questions_asked |-> questions, extracted_data |-> {},
     status |-> "pending"]

\* UPDATE onboarding_calls SET ... WHERE id = ob_id
update_onboarding(tbl, ob_id, set) ==
    [o \in DOMAIN tbl |->
        IF o = ob_id /\ tbl[o] # None
        THEN Some([col \in DOMAIN tbl[o][1] |->
                      IF col \in DOMAIN set THEN set[col] ELSE tbl[o][1][col]])
        ELSE tbl[o]]

\* answers[field_name] = speech, on a dict kept as a set of pairs
Put(answers, field_name, speech) ==
    {p \in answers : p[1] # field_name} \cup {<<field_name, speech>>}

\* a resolution that takes the fixed list when the worker has no cache entry
resolve_questions_without_row(store, tbl, ob_id) ==
    LET cached == cache_get_onq(store, ob_id) IN
    IF cached # <<>> THEN cached ELSE FallbackQuestions

\* questions as the handlers resolve them: the worker's cache entry, or the
\* questions_asked of the interview row
resolve_questions(store, tbl, ob_id) ==
    LET cached == cache_get_onq(store, ob_id) IN
    IF cached # <<>> THEN cached
    ELSE IF tbl[ob_id] # None THEN tbl[ob_id][1].questions_asked
    ELSE <<>>

\* answers as the handler resolves them: the worker's cache entry, or the
\* extracted_data of the interview row
resolve_answers(store, tbl, ob_id) ==
    LET cached == cache_get_ona(store, ob_id) IN
    IF cached # {} THEN cached
    ELSE IF tbl[ob_id] # None THEN tbl[ob_id][1].extracted_data
    ELSE {}

\* /dashboard/onboarding/start of the owner of business b; gen is the outcome
\* of the question generation, placed tells whether client.calls.create
\* succeeds; ob_id is the id the INSERT returns
client_start_onboarding(w, ob_id, b, gen, placed) ==
    /\ onb[ob_id] = None
    /\ UNCHANGED <<calls, tickets, usage, sms, req, resp, opened, delivered>>
    /\ idle' = FALSE
    /\ ai' = IF UserPhone(b) = "" THEN NoAi ELSE AiUse("onboarding-questions", gen)
    /\ IF UserPhone(b) = ""
       THEN UNCHANGED <<mem, onb, account, line>>
       ELSE LET questions == get_onboarding_questions(gen)
                row == NewOnboarding(b, questions)
            IN  /\ mem' = [mem EXCEPT ![w] = cache_set_onq(@, ob_id, questions)]
                /\ IF placed
                   THEN /\ onb' = [onb EXCEPT ![ob_id] =
                                      Some([row EXCEPT !.status = "in_progress"])]
                        /\ account' = [account EXCEPT ![b].user_status = "onboarding"]
                        /\ line' = OutboundCall
                   ELSE /\ onb' = [onb EXCEPT ![ob_id] = Some(row)]
                        /\ UNCHANGED <<account, line>>

\* /webhook/onboarding-start
webhook_onboarding_start(biz_id, ob_id) ==
    /\ delivered < MaxDeliveries
    /\ delivered' = delivered + 1
    /\ idle' = FALSE
    /\ req' = Request("onboarding-start", ob_id, 0, "", "", 0, "", "")
    /\ ai' = NoAi
    /\ LET questions == IF onb[ob_id] # None THEN onb[ob_id][1].questions_asked
                        ELSE <<>>
       IN  resp' = (IF questions = <<>>
                    THEN TwimlSetupError
                    ELSE IF questions = NotAList
                    THEN \* questions[0] raises KeyError
                         ServerError
                    ELSE TwimlOnboardingStart(questions[1].question))
    /\ line' = resp'
    /\ UNCHANGED <<calls, tickets, usage, mem, sms, opened, onb, account>>

\* /webhook/onboarding-answer; syn is the outcome of the config synthesis
webhook_onboarding_answer(w, biz_id, ob_id, q_idx, speech, syn) ==
    /\ delivered < MaxDeliveries
    /\ delivered' = delivered + 1
    /\ idle' = FALSE
    /\ req' = Request("onboarding-answer", ob_id, q_idx, speech, "", 0, "", "")
    /\ UNCHANGED <<calls, tickets, usage, sms, opened>>
    /\ LET questions == resolve_questions(mem[w], onb, ob_id)
           old == resolve_answers(mem[w], onb, ob_id)
           answers == IF q_idx < Len(questions) /\ questions # NotAList
                      THEN Put(old, questions[q_idx + 1].field_name, speech)
                      ELSE old
           saved == update_onboarding(onb, ob_id, [extracted_data |-> answers])
           next_idx == q_idx + 1
       IN  IF questions = NotAList
           THEN \* questions[q_idx] raises before anything is written
                /\ resp' = ServerError
                /\ ai' = NoAi
                /\ UNCHANGED <<mem, onb, account>>
           ELSE
           /\ mem' = [mem EXCEPT ![w] = cache_set_ona(@, ob_id, answers)]
           /\ IF next_idx < Len(questions)
              THEN /\ resp' = twiml_onboarding_question(
                                  questions[next_idx + 1].question, next_idx)
                   /\ onb' = saved
                   /\ ai' = NoAi
                   /\ UNCHANGED account
              ELSE IF biz_id \in Biz /\ syn = "notdict"
              THEN \* config.get raises: nothing after the synthesis is written
                   /\ resp' = ServerError
                   /\ onb' = saved
                   /\ ai' = AiUse("build-config", syn)
                   /\ UNCHANGED account
              ELSE /\ resp' = twiml_onboarding_complete
                   /\ onb' = update_onboarding(saved, ob_id,
                                 [extracted_data |-> answers, status |-> "completed"])
                   /\ ai' = IF biz_id \in Biz THEN AiUse("build-config", syn) ELSE NoAi
                   /\ account' = IF biz_id \in Biz
                                 THEN [account EXCEPT ![biz_id] =
                                          [status |-> "ready_for_review",
                                           user_status |-> "ready_for_review",
                                           config |-> build_agent_config(syn)]]
                                 ELSE account
    /\ line' = resp'

\* /webhook/onboarding-next
webhook_onboarding_next(w, biz_id, ob_id, q_idx) ==
    /\ delivered < MaxDeliveries
    /\ delivered' = delivered + 1
    /\ idle' = FALSE
    /\ req' = Request("onboarding-next", ob_id, q_idx, "", "", 0, "", "")
    /\ ai' = NoAi
    /\ LET questions == resolve_questions(mem[w], onb, ob_id) IN
       resp' = (IF questions = NotAList /\ q_idx < Len(questions)
                THEN \* questions[q_idx] raises KeyError
                     ServerError
                ELSE IF q_idx < Len(questions)
                THEN twiml_onboarding_question(questions[q_idx + 1].question, q_idx)
                ELSE twiml_onboarding_complete)
    /\ line' = resp'
    /\ UNCHANGED <<calls, tickets, usage, mem, sms, opened, onb, account>>

\* no request arrives for longer than the ex argument of the session
\* entries: cache_set drops the argument and nothing else removes an entry
idle_period_passes ==
    /\ ~idle
    /\ idle' = TRUE
    /\ UNCHANGED <<calls, tickets, usage, mem, sms, req, resp, ai, opened, delivered>>
    /\ UNCHANGED onbvars

\* the question indexes the provider can post an answer for
AnswerTargets ==
    {v.n : v \in {x \in {line[i] : i \in DOMAIN line} : x.verb = "Gather"
                                      /\ x.action = "/webhook/onboarding-answer"}}

\* the question indexes the provider moves on to when no speech is heard
NextTargets ==
    {v.n : v \in {x \in {line[i] : i \in DOMAIN line} : x.verb = "Redirect"
                                      /\ x.action = "/webhook/onboarding-next"}}

\* the interviews that have a row, and the business_id their URLs carry
Interviews == {o \in Obs : onb[o] # None}

InterviewBiz(o) == onb[o][1].business_id

\* the numbers a live dialogue can start on: those configured for a business
DialogueNumbers == {n \in Numbers : get_business_by_number(n) # NoBiz}

\* the business_id in the action URL of a speech callback. The provider
\* delivers callbacks for calls it has opened, and speech callbacks for calls
\* the application answered with a Gather, which it does after it created
\* the Call row; the handlers put the business of the call in the URL, and
\* the business may be gone by the time the callback arrives
BusinessIdArgs(sid) ==
    IF query_call(calls, sid) = None
    THEN {}
    ELSE {query_call(calls, sid)[1].business_id, NoBiz}

Next ==
    \/ \E w \in Workers, sid \in Sids, n \in Numbers, open \in BOOLEAN :
           webhook_incoming_call(w, sid, n, open)
    \/ \E w \in Workers, sid \in opened, t \in Turns, sp \in Speech \ {""}, raw \in AiRaw :
          \E b \in BusinessIdArgs(sid) : webhook_gather_response(w, sid, b, t, sp, raw)
    \/ \E w \in Workers, sid \in opened, t \in Turns :
          \E b \in BusinessIdArgs(sid) : webhook_gather_response(w, sid, b, t, "", "None")
    \/ \E w \in Workers, sid \in opened, d \in Durations,
          rec \in BOOLEAN, an \in AnalysisOut :
           webhook_call_status(w, sid, "completed", d, rec, an)
    \/ \E w \in Workers, sid \in opened, st \in CallStatuses \ {"completed"} :
           webhook_call_status(w, sid, st, 0, FALSE, "none")
    \/ \E sid \in opened : webhook_voicemail_complete(sid)
    \/ \E b \in Biz : view_usage(b)
    \/ \E w \in Workers, o \in Obs, b \in Biz, gen \in GenOut, placed \in BOOLEAN :
           client_start_onboarding(w, o, b, gen, placed)
    \/ \E o \in Interviews :
           line = OutboundCall /\ webhook_onboarding_start(InterviewBiz(o), o)
    \/ \E w \in Workers, o \in Interviews, q \in AnswerTargets, sp \in OnbSpeech,
          syn \in SynOut :
           webhook_onboarding_answer(w, InterviewBiz(o), o, q, sp, syn)
    \/ \E w \in Workers, o \in Interviews, q \in NextTargets :
           webhook_onboarding_next(w, InterviewBiz(o), o, q)
    \/ idle_period_passes

Spec == Init /\ [][Next]_vars

\* sessions over time: calls and interviews write session entries, and idle
\* periods pass between requests
NextExpiry ==
    \/ \E w \in Workers, sid \in Sids, n \in DialogueNumbers :
           webhook_incoming_call(w, sid, n, TRUE)
    \/ \E w \in Workers, sid \in opened :
          \E b \in BusinessIdArgs(sid) :
              webhook_gather_response(w, sid, b, 0, "Hello", "We open at nine.")
    \/ \E w \in Workers, o \in Obs, b \in Biz :
           client_start_onboarding(w, o, b, "list", TRUE)
    \/ \E o \in Interviews :
           line = OutboundCall /\ webhook_onboarding_start(InterviewBiz(o), o)
    \/ \E w \in Workers, o \in Interviews, q \in AnswerTargets :
           webhook_onboarding_answer(w, InterviewBiz(o), o, q, "Nine to five", "dict")
    \/ idle_period_passes

SpecExpiry == Init /\ [][NextExpiry]_vars

\* the onboarding interview: the owner starts it, the provider asks the
\* questions and posts the answers or moves on after a silence
NextOnboarding ==
    \/ \E w \in Workers, o \in Obs, b \in Biz, gen \in GenOut, placed \in BOOLEAN :
           client_start_onboarding(w, o, b, gen, placed)
    \/ \E o \in Interviews :
           line = OutboundCall /\ webhook_onboarding_start(InterviewBiz(o), o)
    \/ \E w \in Workers, o \in Interviews, q \in AnswerTargets, sp \in OnbSpeech,
          syn \in SynOut :
           webhook_onboarding_answer(w, InterviewBiz(o), o, q, sp, syn)
    \/ \E w \in Workers, o \in Interviews, q \in NextTargets :
           webhook_onboarding_next(w, InterviewBiz(o), o, q)

SpecOnboarding == Init /\ [][NextOnboarding]_vars

\* the dialogue of live calls: calls arrive in business hours on a configured
\* number and speech callbacks follow
NextDialogue ==
    \/ \E w \in Workers, sid \in Sids, n \in DialogueNumbers :
           webhook_incoming_call(w, sid, n, TRUE)
    \/ \E w \in Workers, sid \in opened, t \in Turns, sp \in Speech \ {""}, raw \in AiRaw :
          \E b \in BusinessIdArgs(sid) : webhook_gather_response(w, sid, b, t, sp, raw)
    \/ \E w \in Workers, sid \in opened, t \in Turns :
          \E b \in BusinessIdArgs(sid) : webhook_gather_response(w, sid, b, t, "", "None")

SpecDialogue == Init /\ [][NextDialogue]_vars

\* the replies of the provider that repeat the restricted_info the prompt
\* hands it ("Restricted info (NEVER share): ...")
LeakyReplies == {RestrictedInfo(b) : b \in Biz} \ {""}

\* live calls whose turn responses may repeat what the prompt contains
NextDisclosure ==
    \/ \E w \in Workers, sid \in Sids, n \in DialogueNumbers :
           webhook_incoming_call(w, sid, n, TRUE)
    \/ \E w \in Workers, sid \in opened, t \in {0, MaxTurns},
          raw \in AiRaw \cup LeakyReplies :
          \E b \in BusinessIdArgs(sid) : webhook_gather_response(w, sid, b, t, "Hello", raw)

SpecDisclosure == Init /\ [][NextDisclosure]_vars

\* the life cycle of calls: calls arrive, end, leave voicemail and are
\* analysed from their recording
NextLifecycle ==
    \/ \E w \in Workers, sid \in Sids, n \in Numbers, open \in BOOLEAN :
           webhook_incoming_call(w, sid, n, open)
    \/ \E w \in Workers, sid \in opened, d \in LifecycleDurations,
          rec \in BOOLEAN, an \in AnalysisOut :
           webhook_call_status(w, sid, "completed", d, rec, an)
    \/ \E w \in Workers, sid \in opened, st \in CallStatuses \ {"completed"} :
           webhook_call_status(w, sid, st, 0, FALSE, "none")
    \/ \E sid \in opened : webhook_voicemail_complete(sid)
    \/ \E b \in Biz : view_usage(b)

SpecLifecycle == Init /\ [][NextLifecycle]_vars

\* the accrual of usage: calls of every duration complete, with a recording
\* whose analysis succeeds or raises, and the usage pages are viewed
NextUsage ==
    \/ \E w \in Workers, sid \in Sids, n \in Numbers :
           webhook_incoming_call(w, sid, n, TRUE)
    \/ \E w \in Workers, sid \in opened, d \in Durations, an \in {"plain", "notdict"} :
           webhook_call_status(w, sid, "completed", d, TRUE, an)
    \/ \E b \in Biz : view_usage(b)

SpecUsage == Init /\ [][NextUsage]_vars

\* the analysis of calls that had a conversation: calls arrive in business
\* hours, the caller speaks, and the call completes with or without a
\* recording and with every outcome of the analysis
NextAnalysis ==
    \/ \E w \in Workers, sid \in Sids, n \in Numbers :
           webhook_incoming_call(w, sid, n, TRUE)
    \/ \E w \in Workers, sid \in opened :
          \E b \in BusinessIdArgs(sid) :
              webhook_gather_response(w, sid, b, 0, "Hello", "We open at nine.")
    \/ \E w \in Workers, sid \in opened, d \in LifecycleDurations,
          rec \in BOOLEAN, an \in AnalysisOut :
           webhook_call_status(w, sid, "completed", d, rec, an)

SpecAnalysis == Init /\ [][NextAnalysis]_vars

(* ------------------------- observed quantities ------------------------ *)

\* the durable conversation log of a call (empty when there is no row)
DurableLog(tbl, sid) ==
    IF query_call(tbl, sid) = None THEN <<>> ELSE query_call(tbl, sid)[1].conversation_log

\* minutes_used of a business this month, in hundredths of a minute
MinutesUsed(u, b) == IF u[b] = None THEN 0 ELSE u[b][1].minutes_used

\* the active-call counter of a business as worker w holds it
ActiveCalls(store, w, b) == GetOr0(store[w].active[b])

\* a webhook request was handled in this step
Handled(op) == delivered' = delivered + 1 /\ req'.op = op

TerminalStatuses == {"completed", "missed", "voicemail"}

\* C1 (as claimed): the status of a Call only moves from in_progress to
\* completed, missed or voicemail, and a Call whose status is completed,
\* missed or voicemail keeps that status in every later step.
C1_StatusMonotone ==
    [][\A i \in DOMAIN calls :
          /\ i \in DOMAIN calls'
          /\ calls'[i].status \in {"in_progress"} \cup TerminalStatuses
          /\ calls[i].status \in TerminalStatuses => calls'[i].status = calls[i].status]_vars

\* C2 (as claimed): a call-status callback for a call that is already
\* completed, and that leaves it completed with the same duration, changes
\* neither the minutes_used of the business nor any worker's active-call
\* counter.
C2_SecondCompletedIsNoOp ==
    [][\A sid \in Sids :
          (/\ Handled("call-status")
           /\ req'.status = "completed"
           /\ req'.call_sid = sid
           /\ query_call(calls, sid) # None
           /\ query_call(calls, sid)[1].status = "completed"
           /\ query_call(calls', sid)[1].status = "completed"
           /\ query_call(calls', sid)[1].duration_seconds
                  = query_call(calls, sid)[1].duration_seconds)
          => LET b == query_call(calls, sid)[1].business_id IN
             /\ MinutesUsed(usage', b) = MinutesUsed(usage, b)
             /\ \A w \in Workers : ActiveCalls(mem', w, b) = ActiveCalls(mem, w, b)]_vars

\* the response is the reply of a normal turn: either the agent's reply inside
\* a Gather for the next turn, or the agent's reply with the closing sentence
IsRespondAndGather(r) ==
    /\ Len(r) = 3
    /\ r[1].verb = "Gather" /\ r[1].action = "/webhook/gather-response"
    /\ r[3].verb = "Hangup"

IsClosing(r) ==
    /\ Len(r) = 2
    /\ r[1].verb = "Say" /\ Len(r[1].text) = 2
    /\ r[1].text[2] = " Thank you for calling. Have a great day!"
    /\ r[2].verb = "Hangup"

IsTurnReply(r) == IsRespondAndGather(r) \/ IsClosing(r)

\* C3 (as claimed): when the speech callback just handled as a normal turn is
\* delivered again (same CallSid, same turn, same non-empty speech) and handled
\* as a normal turn, the durable conversation log stays as it was.
C3_SpeechReplayIsNoOp ==
    [][(/\ req.op = "gather-response" /\ IsTurnReply(resp)
        /\ Handled("gather-response") /\ IsTurnReply(resp')
        /\ req' = req /\ req.speech # "")
       => DurableLog(calls', req.call_sid) = DurableLog(calls, req.call_sid)]_vars

\* C4 (as claimed): after every normal turn the durable conversation log
\* extends the log stored before the turn and ends with the turn's caller
\* entry and agent entry; no turn stored earlier is dropped from it.
C4_DurableLogAppendOnly ==
    [][(Handled("gather-response") /\ IsTurnReply(resp'))
       => LET old == DurableLog(calls, req'.call_sid)
              new == DurableLog(calls', req'.call_sid)
          IN  /\ Len(new) >= Len(old) + 2
              /\ SubSeq(new, 1, Len(old)) = old
              /\ new[Len(new) - 1] = Entry("Caller", req'.speech)
              /\ new[Len(new)].role = "Agent"]_vars

Thresholds == {80, 90, 100}

\* the usage of a business this month has reached t percent of its limit
UsageAtLeast(u, b, t) ==
    /\ u[b] # None
    /\ u[b][1].minutes_limit > 0
    /\ u[b][1].minutes_used >= t * u[b][1].minutes_limit

\* the "already sent" flag of threshold t in the usage record of a business
FlagSet(u, b, t) ==
    /\ u[b] # None
    /\ CASE t = 80 -> u[b][1].alert_80_sent
         [] t = 90 -> u[b][1].alert_90_sent
         [] OTHER -> u[b][1].alert_100_sent

\* how many alerts for threshold t of business b were sent
AlertCount(s, b, t) == Cardinality({i \in DOMAIN s : s[i] = Alert(b, t)})

\* C6: over any sequence of completed calls and usage look-ups, each of the
\* three alerts of a business is sent at most once, and once the flag of a
\* threshold is set it stays set and no step sends the alert of that
\* threshold again.
C6_AlertAtMostOnce ==
    [][\A b \in Biz, t \in Thresholds :
          /\ AlertCount(sms', b, t) <= 1
          /\ FlagSet(usage, b, t)
             => FlagSet(usage', b, t) /\ AlertCount(sms', b, t) = AlertCount(sms, b, t)]_vars

\* C6 witness: the 80% alert of b1 was sent, and the threshold check then ran
\* again with unchanged usage (a completed callback of 0 seconds): still one
\* alert.
C6_Witness ==
    /\ FlagSet(usage, "b1", 80)
    /\ sms = <<Alert("b1", 80)>>
    /\ req.op = "call-status" /\ req.status = "completed"
    /\ query_call(calls, req.call_sid) # None
    /\ query_call(calls, req.call_sid)[1].duration_seconds = 0

\* the thresholds the usage of b reaches in this step and had not reached before
Crossed(b) == {t \in Thresholds : ~UsageAtLeast(usage, b, t) /\ UsageAtLeast(usage', b, t)}

\* C7 (as claimed): when the accrual of a completed call moves the usage of
\* a business across two or more thresholds at once, that step sets the flag
\* of every threshold crossed and sends one alert for each of them.
C7_EveryCrossedThresholdFires ==
    [][\A b \in Biz :
          (Handled("call-status") /\ Cardinality(Crossed(b)) >= 2)
          => \A t \in Crossed(b) :
                /\ FlagSet(usage', b, t)
                /\ AlertCount(sms', b, t) = AlertCount(sms, b, t) + 1]_vars

\* an accrual moves the usage of b from below 80% into [80%, 90%) while no
\* alert flag is set
EntersFirstBand(b) ==
    /\ Handled("call-status")
    /\ \A t \in Thresholds : ~FlagSet(usage, b, t)
    /\ ~UsageAtLeast(usage, b, 80)
    /\ UsageAtLeast(usage', b, 80)
    /\ ~UsageAtLeast(usage', b, 90)

\* the flags after the step: 80 set, 90 and 100 not set
OnlyFlag80(b) ==
    /\ FlagSet(usage', b, 80)
    /\ ~FlagSet(usage', b, 90)
    /\ ~FlagSet(usage', b, 100)

\* C8 (as claimed): when an accrual moves usage from below 80% into
\* [80%, 90%) with no flag set, exactly one alert, the 80% one, is sent,
\* alert_80_sent becomes true and the other two flags stay false.
C8_ExactlyOneAlert ==
    [][\A b \in Biz :
          EntersFirstBand(b) => OnlyFlag80(b) /\ sms' = Append(sms, Alert(b, 80))]_vars

\* C8 (amended): when an accrual moves usage from below 80% into [80%, 90%)
\* with no flag set, alert_80_sent becomes true and the other two flags stay
\* false; the 80% alert, and no other, is sent if the owner of the business
\* has a phone number, and nothing is sent if the owner has none.
C8_OneAlertIfOwnerHasPhone ==
    [][\A b \in Biz :
          EntersFirstBand(b)
          => /\ OnlyFlag80(b)
             /\ sms' = IF UserPhone(b) # "" THEN Append(sms, Alert(b, 80)) ELSE sms]_vars

\* C8 witness: the usage of b1 entered [80%, 90%) from 0 in one accrual;
\* only the 80% flag is set and only the 80% alert was sent.
C8_Witness ==
    /\ UsageAtLeast(usage, "b1", 80) /\ ~UsageAtLeast(usage, "b1", 90)
    /\ FlagSet(usage, "b1", 80) /\ ~FlagSet(usage, "b1", 90) /\ ~FlagSet(usage, "b1", 100)
    /\ sms = <<Alert("b1", 80)>>
    /\ req.op = "call-status" /\ req.status = "completed"
    /\ query_call(calls, req.call_sid) # None
    /\ 100 * query_call(calls, req.call_sid)[1].duration_seconds
           = 60 * MinutesUsed(usage, "b1")

\* C9 (as claimed): every completed callback for a known call with duration
\* d adds round(d / 60, 2) minutes to the minutes_used of the business this
\* month (a call of 125 seconds adds 2.08), whatever the outcome of the
\* analysis and whether or not the usage record existed before.
C9_CompletedAddsMinutes ==
    [][\A sid \in Sids :
          (/\ Handled("call-status")
           /\ req'.status = "completed"
           /\ req'.call_sid = sid
           /\ query_call(calls, sid) # None)
          => LET b == query_call(calls, sid)[1].business_id
                 d == query_call(calls', sid)[1].duration_seconds
                 added == MinutesUsed(usage', b) - MinutesUsed(usage, b)
             IN  /\ 60 * added - 100 * d \in -30 .. 30
                 /\ d = 125 => added = 208]_vars

\* the caller asked for a human and the business has a transfer number
Transferred(speech_result, b) ==
    NeedsTransfer(speech_result) /\ TransferNumber(b) # ""

IsTransfer(r) == Len(r) = 4 /\ r[2].verb = "Dial"

HasGather(r) == \E i \in DOMAIN r : r[i].verb = "Gather"

\* a speech callback with non-empty speech was answered for its business
SpeechAnswered ==
    /\ Handled("gather-response")
    /\ req'.speech # ""
    /\ resp' # TwimlBizError
    /\ query_call(calls, req'.call_sid) # None

\* C10 (as claimed): a non-transfer speech event at turn t < 15 is answered
\* with a Gather whose action carries turn t + 1, and a speech event at turn
\* 15 or more is answered with the reply, the closing sentence and a hangup,
\* never with a Gather.
C10_TurnBoundAlwaysCloses ==
    [][SpeechAnswered
       => LET b == query_call(calls, req'.call_sid)[1].business_id IN
          /\ (req'.turn < MaxTurns /\ ~Transferred(req'.speech, b))
             => IsRespondAndGather(resp') /\ resp'[1].n = req'.turn + 1
          /\ req'.turn >= MaxTurns => IsClosing(resp')]_vars

\* C10 (amended): a speech event that is not transferred is answered at turn
\* t < 15 with a Gather whose action carries turn t + 1 and at turn 15 or more
\* with the reply, the closing sentence and a hangup; a speech event that asks
\* for a human while the business has a transfer number is answered with the
\* transfer dial at any turn; no speech event at turn 15 or more is answered
\* with a Gather.
C10_TurnBoundClosesOrTransfers ==
    [][SpeechAnswered
       => LET b == query_call(calls, req'.call_sid)[1].business_id IN
          /\ (req'.turn < MaxTurns /\ ~Transferred(req'.speech, b))
             => IsRespondAndGather(resp') /\ resp'[1].n = req'.turn + 1
          /\ (req'.turn >= MaxTurns /\ ~Transferred(req'.speech, b))
             => IsClosing(resp')
          /\ Transferred(req'.speech, b) => IsTransfer(resp')
          /\ req'.turn >= MaxTurns => ~HasGather(resp')]_vars

\* C10 witness: a speech event at turn 15 was answered with the reply and the
\* closing sentence.
C10_Witness ==
    /\ req.op = "gather-response"
    /\ req.turn = MaxTurns
    /\ req.speech # ""
    /\ IsClosing(resp)

\* C11 (as claimed): a speech event whose speech contains a transfer keyword,
\* for a business with a transfer number, is answered with a dial of that
\* number with a 30 second timeout, and the handler does not invoke the AI
\* turn-response operation for it.
C11_TransferSkipsAi ==
    [][SpeechAnswered
       => LET b == query_call(calls, req'.call_sid)[1].business_id IN
          Transferred(req'.speech, b)
          => /\ ai'.op # "turn-response"
             /\ IsTransfer(resp')
             /\ resp'[2].text = <<TransferNumber(b)>>
             /\ resp'[2].n = DialTimeout]_vars

\* the numbers of the phone_numbers table that are assigned to a business
AssignedNumbers == {"+441", "+442"}

\* the response is an apology followed by a hangup
IsApologyAndHangup(r) ==
    /\ Len(r) = 2
    /\ r[1].verb = "Say"
    /\ r[1].text = <<"Sorry, this number is not configured. Goodbye.">>
    /\ r[2].verb = "Hangup"

\* C12: an incoming call to a number no business owns is answered with an
\* apology and a hangup, and the step changes no table, no worker's cache
\* (active-call counters and session entries) and sends nothing.
C12_UnconfiguredNumberChangesNothing ==
    [][(Handled("incoming-call") /\ req'.called \notin AssignedNumbers)
       => /\ IsApologyAndHangup(resp')
          /\ calls' = calls
          /\ mem' = mem
          /\ tickets' = tickets /\ usage' = usage /\ sms' = sms]_vars

\* C12 witness: the last request was an incoming call to a number nobody
\* owns; it got the apology and there is no Call row.
C12_Witness ==
    /\ req.op = "incoming-call"
    /\ req.called \notin AssignedNumbers
    /\ IsApologyAndHangup(resp)
    /\ calls = <<>>
    /\ \A w \in Workers : mem[w] = EmptyStore

\* the response plays the after-hours message, then records a voicemail of
\* at most 120 seconds, gathers no speech and ends with a hangup
IsAfterHours(r) ==
    /\ Len(r) >= 3
    /\ r[1].verb = "Say"
    /\ r[1].text = <<"Thank you for calling. We are currently closed.">>
    /\ \E i \in 2 .. Len(r) :
          /\ r[i].verb = "Record"
          /\ r[i].n <= 120
          /\ r[i].action = "/webhook/voicemail-complete"
          /\ \A j \in DOMAIN r : r[j].verb = "Record" => j = i
    /\ ~HasGather(r)
    /\ r[Len(r)].verb = "Hangup"

\* C13: an incoming call to a configured number outside business hours is
\* answered with the after-hours message and a recording of at most 120
\* seconds, with no speech gather; when the recording-complete callback of a
\* call is handled, the status of the Call becomes voicemail and the response
\* ends with a hangup.
C13_AfterHoursVoicemail ==
    [][/\ (Handled("incoming-call") /\ req'.hours = "closed") => IsAfterHours(resp')
       /\ Handled("voicemail-complete")
          => /\ resp'[Len(resp')].verb = "Hangup"
             /\ ~HasGather(resp')
             /\ \A i \in RowsOf(calls', req'.call_sid) : calls'[i].status = "voicemail"]_vars

\* C13 witness: the call arrived outside business hours only (it has a Call
\* row and no worker holds a session entry for it), its recording-complete
\* callback was handled and the Call is a voicemail.
C13_Witness ==
    /\ req.op = "voicemail-complete"
    /\ query_call(calls, req.call_sid) # None
    /\ query_call(calls, req.call_sid)[1].status = "voicemail"
    /\ \A w \in Workers : mem[w].conv[req.call_sid] = None
    /\ resp = TwimlVoicemailDone

\* the sentence the response speaks as the agent's reply of a normal turn
SpokenReply(r) == r[1].text[1]

\* the AI turn-response operation of this step failed (the provider call
\* raised or timed out, so _call_gemini returned None)
TurnResponseFailed == ai'.op = "turn-response" /\ ai'.out = "None"

Analysed == ai'.op \in {"analyze-recording", "analyze-transcript"}

\* the analysis step of this completed callback raised
AnalysisRaised == Analysed /\ ai'.out = "notdict"

\* C15: when the analysis step raises while a completed callback is handled,
\* the Call is completed with the reported duration, no Ticket is created,
\* and the handler acknowledges the callback with its normal empty response.
C15_AnalysisFailureIsContained ==
    [][(Handled("call-status") /\ AnalysisRaised)
       => /\ query_call(calls', req'.call_sid) # None
          /\ query_call(calls', req'.call_sid)[1].status = "completed"
          /\ query_call(calls', req'.call_sid)[1].duration_seconds = req'.duration
          /\ tickets' = tickets
          /\ resp' = NoContent]_vars

\* C15 witness: a call with a transcript and no recording completed, the
\* analysis of the transcript raised, and the Call is completed with its
\* duration and without a Ticket.
C15_Witness ==
    /\ req.op = "call-status"
    /\ ai = AiUse("analyze-transcript", "notdict")
    /\ query_call(calls, req.call_sid) # None
    /\ query_call(calls, req.call_sid)[1].status = "completed"
    /\ query_call(calls, req.call_sid)[1].duration_seconds = 125
    /\ DurableLog(calls, req.call_sid) # <<>>
    /\ tickets = <<>>
    /\ resp = NoContent

\* the number of Tickets created for a call
TicketCount(tks, sid) == Cardinality({i \in DOMAIN tks : tks[i].call_sid = sid})

\* the analysis of this step asked for a Ticket for the call sid
TicketFlagged(sid) ==
    /\ Handled("call-status")
    /\ req'.call_sid = sid
    /\ Analysed
    /\ ai'.out = "ticket"

\* C16 (as claimed): a call never has more than one Ticket; a completed
\* callback whose analysis asks for a Ticket leaves the call with exactly one
\* Ticket, also when the callback is repeated, and no other step creates one.
C16_OneTicketIfFlagged ==
    [][\A sid \in Sids :
          /\ TicketCount(tickets', sid) <= 1
          /\ TicketFlagged(sid) => TicketCount(tickets', sid) = 1
          /\ ~TicketFlagged(sid) => TicketCount(tickets', sid) = TicketCount(tickets, sid)]_vars

\* the number of calls of a business whose status is still in_progress
InProgress(tbl, b) ==
    Cardinality({i \in DOMAIN tbl : tbl[i].business_id = b /\ tbl[i].status = "in_progress"})

\* the active-call count of a business, all workers' counters taken together
TotalActive(store, b) == ActiveCalls(store, "w1", b) + ActiveCalls(store, "w2", b)

\* C17 (as claimed): between any two callbacks the active-call count of a
\* business equals the number of its calls still in progress, so it is 0 once
\* every call of the business has its terminal status; this holds for what any
\* one worker reads and for all workers' counters taken together.
C17_CounterMatchesInProgress ==
    \A b \in Biz :
        /\ TotalActive(mem, b) = InProgress(calls, b)
        /\ \A w \in Workers : ActiveCalls(mem, w, b) = InProgress(calls, b)

\* C18 (as claimed): when a worker sets the session entry of a call, every
\* worker that reads the entry next gets the value that was set.
C18_SessionSharedAcrossWorkers ==
    [][\A w \in Workers, sid \in Sids :
          mem'[w].conv[sid] # mem[w].conv[sid]
          => \A other \in Workers : mem'[other].conv[sid] = mem'[w].conv[sid]]_vars

\* C19 (as claimed): the request context a speech event with non-empty
\* speech is answered from (transcript so far, caller history, personality)
\* equals the context the same event gives with no session entry at all,
\* built from the durable store alone.
C19_ContextWithoutSession ==
    [][Handled("gather-response") /\ ai'.op = "turn-response"
       => ai'.ctx = ai_context(EmptyStore, calls, req'.call_sid,
                               ai'.ctx.business_id, req'.speech)]_vars

\* the number of questions of the interview a request names
QuestionCount(tbl, ob_id) ==
    IF ob_id \in Obs /\ tbl[ob_id] # None THEN Len(tbl[ob_id][1].questions_asked) ELSE 0

\* the step processes the last question of an interview: its answer is
\* posted, or the capture window of the last question ran out
LastQuestionProcessed ==
    /\ QuestionCount(onb, req'.call_sid) > 0
    /\ \/ Handled("onboarding-answer") /\ req'.turn + 1 = QuestionCount(onb, req'.call_sid)
       \/ Handled("onboarding-next") /\ req'.turn = QuestionCount(onb, req'.call_sid)

\* C20 (as claimed): once the last question of an interview with a non-empty
\* question list has been processed, answered or timed out and whatever the
\* config synthesis yields, the interview is completed and the business is
\* ready_for_review.
C20_InterviewEndsReviewable ==
    [][LastQuestionProcessed
       => /\ onb'[req'.call_sid][1].status = "completed"
          /\ account'[onb'[req'.call_sid][1].business_id].status = "ready_for_review"]_vars

\* the durable answer set of an interview
DurableAnswers(tbl, ob_id) ==
    IF ob_id \in Obs /\ tbl[ob_id] # None THEN tbl[ob_id][1].extracted_data ELSE {}

\* C21 (as claimed): processing the answer to question i, on whatever worker,
\* keeps every answer the durable answer set holds for another question, with
\* its value.
C21_AnswersAccumulate ==
    [][Handled("onboarding-answer")
       => LET o == req'.call_sid
              field == IF req'.turn < QuestionCount(onb, o)
                       THEN onb[o][1].questions_asked[req'.turn + 1].field_name
                       ELSE ""
          IN  \A p \in DurableAnswers(onb, o) :
                 p[1] # field => p \in DurableAnswers(onb', o)]_vars

\* the strings a response says to the caller
SpokenTexts(r) ==
    UNION {{r[i].text[j] : j \in DOMAIN r[i].text} :
              i \in {k \in DOMAIN r : r[k].verb \in {"Say", "Gather"}}}

\* C22 (as claimed): no response of the engine says the restricted_info text
\* of a business to the caller.
C22_NoRestrictedInfoSpoken ==
    \A b \in Biz : RestrictedInfo(b) # "" => RestrictedInfo(b) \notin SpokenTexts(resp)

C24_MissedCallEffects ==
    [][(/\ Handled("call-status")
        /\ req'.status \in MissedStatuses
        /\ query_call(calls, req'.call_sid) # None)
       => LET b == query_call(calls, req'.call_sid)[1].business_id IN
          /\ query_call(calls', req'.call_sid)[1].status = "missed"
          /\ TotalActive(mem', b) = TotalActive(mem, b) - 1
          /\ ai' = NoAi
          /\ tickets' = tickets
          /\ usage' = usage
          /\ sms' = sms]_vars

\* the re-prompt the empty-speech branch builds: the sentence, then a Gather
\* whose action carries the turn of the request
TwimlReprompt(turn) ==
    << Say(<<"I didn't catch that. Could you please repeat?">>),
       Verb("Gather", <<>>, "/webhook/gather-response", turn) >>

\* C25 (as claimed): a speech callback with empty speech leaves the session
\* and durable transcript as they were, does not call the AI provider, and
\* answers with the re-prompt followed by a Gather for the same turn.
C25_EmptySpeechReprompts ==
    [][(Handled("gather-response") /\ req'.speech = "")
       => /\ calls' = calls
          /\ \A w \in Workers : mem'[w].conv[req'.call_sid] = mem[w].conv[req'.call_sid]
          /\ ai' = NoAi
          /\ resp' = TwimlReprompt(req'.turn)]_vars

\* C26 (as claimed): when the capture window of a Gather for speech elapses
\* with no speech, after the greeting or after an agent reply, the verbs the
\* provider goes on with (those that follow the Gather) neither hang up nor
\* transfer the call.
C26_TimeoutKeepsListening ==
    \A g \in DOMAIN resp :
        (resp[g].verb = "Gather" /\ resp[g].action = "/webhook/gather-response")
        => \A i \in (g + 1)..Len(resp) :
              /\ resp[i].verb \notin {"Hangup", "Dial"}
              /\ ~(resp[i].verb = "Redirect" /\ resp[i].action = "/webhook/transfer")

\* C27 (as claimed): once the idle period has passed since the last request,
\* and so since the last write of every session entry, no session entry of a
\* call or of an interview is left in the session store of any worker.
C27_SessionEntriesExpire ==
    idle => \A w \in Workers :
               /\ \A sid \in Sids : /\ mem[w].conv[sid] = None
                                     /\ mem[w].hist[sid] = None
                                     /\ mem[w].pers[sid] = None
               /\ \A o \in Obs : mem[w].onq[o] = None /\ mem[w].ona[o] = None

\* the question indexes a TwiML document asks an answer for
AskedIn(doc) ==
    {doc[i].n : i \in {k \in DOMAIN doc : doc[k].verb = "Gather"
                                          /\ doc[k].action = "/webhook/onboarding-answer"}}

\* C28: when the capture window of an onboarding question runs out, the
\* engine asks the question with the next index or ends the interview, the
\* durable and session answer sets stay as they were, and no later step asks
\* a question with an index at or below one already asked.
C28_TimeoutAdvances ==
    [][/\ Handled("onboarding-next")
          => /\ \A t \in AskedIn(line) :
                    line' = twiml_onboarding_complete \/ AskedIn(line') = {t + 1}
             /\ DurableAnswers(onb', req'.call_sid) = DurableAnswers(onb, req'.call_sid)
             /\ \A w \in Workers : mem'[w].ona[req'.call_sid] = mem[w].ona[req'.call_sid]
       /\ (Handled("onboarding-next") \/ Handled("onboarding-answer"))
          => \A t \in AskedIn(line), u \in AskedIn(line') : u > t]_vars

\* C28 witness: question 0 timed out, question 1 is being asked and no answer
\* is recorded.
C28_Witness ==
    /\ req.op = "onboarding-next"
    /\ req.turn = 1
    /\ AskedIn(line) = {1}
    /\ DurableAnswers(onb, "ob1") = {}
    /\ \A w \in Workers : mem[w].ona["ob1"] = None

\* C29 (as claimed): when the question generation fails (the provider call
\* gives None) the interview gets the fixed list of 8 questions; every
\* interview record holds a non-empty ordered question list, and
\* onboarding-start asks question 0.
C29_StartNeverBlocksOnAi ==
    [][/\ (ai'.op = "onboarding-questions" /\ ai'.out = "None")
          => \E o \in Obs : /\ onb[o] = None /\ onb'[o] # None
                             /\ onb'[o][1].questions_asked = FallbackQuestions
                             /\ Len(FallbackQuestions) = 8
       /\ \A o \in Obs : onb'[o] # None
             => /\ onb'[o][1].questions_asked # <<>>
                /\ onb'[o][1].questions_asked # NotAList
       /\ Handled("onboarding-start") => AskedIn(line') = {0}]_vars

\* C30 (as claimed): when the answer to the last question is processed and
\* the config synthesis fails (None from the provider, or output that is not
\* a JSON object), the minimal fallback config is written to the business,
\* business and user become ready_for_review and the interview becomes
\* completed.
C30_SynthesisFailureWritesFallback ==
    [][(Handled("onboarding-answer") /\ ai'.op = "build-config" /\ ai'.out # "dict")
       => LET o == req'.call_sid
              b == onb[o][1].business_id
          IN  /\ account'[b].config = build_agent_config("None")
              /\ account'[b].status = "ready_for_review"
              /\ account'[b].user_status = "ready_for_review"
              /\ onb'[o][1].status = "completed"]_vars

\* C31: no onboarding webhook changes the question list stored with the
\* interview, and every question the engine asks with index i, on whatever
\* worker, is the i-th question of the stored list.
C31_QuestionListImmutable ==
    [][\A o \in Obs : onb[o] # None
          => /\ onb'[o] # None
             /\ onb'[o][1].questions_asked = onb[o][1].questions_asked
             /\ \A i \in DOMAIN line' :
                    (line'[i].verb = "Gather" /\ line'[i].action = "/webhook/onboarding-answer")
                    => /\ line'[i].n < Len(onb[o][1].questions_asked)
                       /\ line'[i].text =
                              << onb[o][1].questions_asked[line'[i].n + 1].question >>]_vars

\* C31 witness: an answer to question 0 was processed by a worker that holds
\* no cached question list, and question 1 of the stored list is being asked.
C31_Witness ==
    /\ req.op = "onboarding-answer"
    /\ req.turn = 0
    /\ AskedIn(line) = {1}
    /\ \E w \in Workers : mem[w].onq["ob1"] = None /\ mem[w].ona["ob1"] # None
    /\ line[1].text = << onb["ob1"][1].questions_asked[2].question >>

\* C32 (as claimed): the caller history block of a turn response, for a
\* caller with an earlier completed call to the business, has the RETURNING
\* CALLER framing, names the caller when an earlier call recorded a name and
\* lists at most 2 summaries; for a caller with none it has the new-caller
\* framing.
C32_ReturningCallerFraming ==
    [][(Handled("gather-response") /\ ai'.op = "turn-response")
       => LET b == ai'.ctx.business_id
              block == history_text(ai'.ctx.caller_history)
          IN  IF EarlierCalls(b) # <<>>
              THEN /\ block.framing = "RETURNING CALLER"
                   /\ EarlierCallerName(b) # "" => block.name = EarlierCallerName(b)
                   /\ Len(block.summaries) <= HistoryLimit
              ELSE block.framing = "new caller"]_vars

C35_TransferTurnIsDurable ==
    [][(Handled("gather-response") /\ IsTransfer(resp'))
       => LET log == DurableLog(calls', req'.call_sid) IN
          /\ Len(log) >= 2
          /\ log[Len(log) - 1] = Entry("Caller", req'.speech)
          /\ log[Len(log)] = Entry("Agent", "Transferring to human.")]_vars

\* C36 (as claimed): within the month, once the 100% alert of a business was
\* sent no 90% or 80% alert is sent for it afterwards, and once the 90% alert
\* was sent no 80% alert is sent afterwards.
C36_AlertsInThresholdOrder ==
    [][\A b \in Biz :
          /\ AlertCount(sms, b, 100) > 0
             => /\ AlertCount(sms', b, 90) = AlertCount(sms, b, 90)
                /\ AlertCount(sms', b, 80) = AlertCount(sms, b, 80)
          /\ AlertCount(sms, b, 90) > 0
             => AlertCount(sms', b, 80) = AlertCount(sms, b, 80)]_vars

\* C37: one completed callback, and so one run of add_call_minutes, sends at
\* most one alert message and sets at most one alert flag, also when the
\* usage passes several thresholds whose flags are not set.
C37_OneAlertPerAccrual ==
    [][/\ Len(sms') <= Len(sms) + 1
       /\ \A b \in Biz :
             Cardinality({t \in Thresholds : FlagSet(usage', b, t) /\ ~FlagSet(usage, b, t)}) <= 1]_vars

\* C37 witness: one accrual took b1 from the 80% band to 100% or more, past
\* the 90% and 100% thresholds; the 100% flag was set and the 100% alert
\* sent, the 90% flag is not set and no 90% alert was sent.
C37_Witness ==
    /\ req.op = "call-status" /\ req.status = "completed"
    /\ UsageAtLeast(usage, "b1", 100)
    /\ FlagSet(usage, "b1", 100) /\ ~FlagSet(usage, "b1", 90) /\ FlagSet(usage, "b1", 80)
    /\ sms = <<Alert("b1", 80), Alert("b1", 100)>>

\* C38 (as claimed): the answer to question q is followed by question q + 1
\* or by the completion message, and so is a timeout on question q; no such
\* step asks a question with an index at or below q, and no question is asked
\* beyond the n questions of the interview.
C38_ProgressStrictlyForward ==
    [][(Handled("onboarding-answer") \/ Handled("onboarding-next"))
       => \A q \in AskedIn(line) :
             /\ line' = twiml_onboarding_complete \/ AskedIn(line') = {q + 1}
             /\ \A u \in AskedIn(line') :
                    u > q /\ u < QuestionCount(onb, req'.call_sid)]_vars

\* C39: the active-call counter of a business in the store of a worker is
\* never negative, and a status callback that finds the counter absent or at
\* 0 leaves it at 0.
C39_CounterNeverNegative ==
    [][\A w \in Workers, b \in Biz :
          /\ ActiveCalls(mem', w, b) >= 0
          /\ (Handled("call-status") /\ ActiveCalls(mem, w, b) = 0)
             => ActiveCalls(mem', w, b) = 0]_vars

\* C39 witness: one worker counted the call when it arrived, and the status
\* callback was handled by the other worker, whose counter was absent and is
\* now 0.
C39_Witness ==
    /\ delivered = 2
    /\ req.op = "call-status"
    /\ \E w \in Workers, w2 \in Workers :
          /\ mem[w].active["b1"] = Some(0)
          /\ mem[w2].active["b1"] = Some(1)

====
